---- MODULE Spec2Model ----
(***************************************************************************)
(* Model of src/main.py: a webhook handler (on_workflow_job) and a         *)
(* scheduled reconciliation job (maintain_min_ready) acting on two         *)
(* external systems, the OpenStack server inventory and the GitHub         *)
(* organization's self-hosted runner registry.                             *)
(*                                                                         *)
(* Every external call (HTTP request) is one atomic step whose outcome is  *)
(* chosen nondeterministically among success and the failures the client   *)
(* libraries report by raising.  Local computation is merged into the      *)
(* external call that follows it.                                          *)
(***************************************************************************)
EXTENDS Naturals, Integers, Sequences, FiniteSets, TLC

VARIABLES
    pools,       \* CFG["pools"], loaded once at import
    servers,     \* the cloud's servers: set of [id, name]
    runners,     \* the organization's runners: set of [id, name, busy, labels]
    nextServer,  \* next server id the cloud hands out
    nextRunner,  \* next runner id GitHub hands out
    hook,        \* the on_workflow_job invocation in progress and its call log
    tick,        \* the maintain_min_ready invocation in progress and its call log
    tasks,       \* the futures of the ThreadPoolExecutor of the pool in progress
    running,     \* number of maintain_min_ready instances APScheduler has running
    hist,        \* whether anything but the clean-up has changed the two systems
    drift        \* external changes so far

vars == <<pools, servers, runners, nextServer, nextRunner, hook, tick, tasks,
          running, hist, drift>>

----------------------------------------------------------------------------
\* Bounds of the model

\* the cloud accepts this many more server creations, and GitHub this many
\* more runner registrations (their quotas)
MaxCreates == 2
\* external changes in one behaviour
MaxDrift == 1

----------------------------------------------------------------------------
\* Program constants

\* ThreadPoolExecutor(max_workers=4)
max_workers == 4
\* @scheduler.task(..., max_instances=1, ...)
max_instances == 1

\* CFG["github"]["org"]
CfgOrg == "acme"
Orgs == {"acme", "other"}

Labels == {"x", "y"}

\* Names are a prefix and a suffix, so that startswith("gha-") is computed.
Suffixes == {"a", "b"}
Name(p, s) == [prefix |-> p, suffix |-> s]
Names == {Name("gha-", "a"), Name("gha-", "b"), Name("web-", "a")}
NoName == Name("", "")

\* s.name.startswith("gha-")
HasPrefix(n) == n.prefix = "gha-"

\* generate_name(): "gha-" + a random suffix
GeneratedNames == {Name("gha-", s) : s \in Suffixes}

\* the pool lists config.yml may hold: two pools, in this order
PoolConfigs ==
    { << [label |-> "x", min_ready |-> 0], [label |-> "y", min_ready |-> 0] >>,
      << [label |-> "x", min_ready |-> 2], [label |-> "y", min_ready |-> 1] >> }

\* workflow_job webhook payloads
Events ==
    [org : {CfgOrg}, action : {"queued"}, labels : {{}, {"y"}, {"x", "y"}}, runner_name : {NoName}]
    \cup [org : {"other"}, action : {"queued", "in_progress"}, labels : {{"x"}}, runner_name : {NoName}]
    \cup [org : {CfgOrg}, action : {"in_progress"}, labels : {{"x"}}, runner_name : {Name("gha-", "a")}]
    \cup {[org |-> CfgOrg, action |-> "completed", labels |-> {}, runner_name |-> Name("web-", "a")],
          [org |-> CfgOrg, action |-> "completed", labels |-> {"x"}, runner_name |-> Name("gha-", "a")]}
    \cup [org : {"other"}, action : {"completed"}, labels : {{"x"}}, runner_name : {Name("gha-", "a")}]

NoEvent == [org |-> "", action |-> "", labels |-> {}, runner_name |-> NoName]

----------------------------------------------------------------------------
\* The external systems

\* ids 1..3 are taken when the program starts
ServerQuota == 3 + MaxCreates
RunnerQuota == 3 + MaxCreates

RunnerNames(rs) == {r.name : r \in rs}
ServerNames(ss) == {s.name : s \in ss}

\* POST .../actions/runners/generate-jitconfig followed by raise_for_status():
\* ok = the response is 201, and the runner is in the registry, offline and
\* not busy, from then on.  GitHub refuses a name that is registered (409).
GenerateJitconfig(name, label, ok) ==
    /\ ok => name \notin RunnerNames(runners)
    /\ ok => nextRunner <= RunnerQuota
    /\ IF ok
       THEN /\ runners' = runners \cup
                    {[id |-> nextRunner, name |-> name, busy |-> FALSE, labels |-> {label}]}
            /\ nextRunner' = nextRunner + 1
       ELSE UNCHANGED <<runners, nextRunner>>

\* CLOUD.create_server(name=..., wait=True, timeout=300):
\* "ok" the server is active; "fail" the request is refused, no server;
\* "timeout" the server exists but did not become active in time (raises).
CreateOutcomes == {"ok", "fail", "timeout"}
CreateServer(name, outcome) ==
    /\ outcome # "fail" => nextServer <= ServerQuota
    /\ IF outcome # "fail"
       THEN /\ servers' = servers \cup {[id |-> nextServer, name |-> name]}
            /\ nextServer' = nextServer + 1
       ELSE UNCHANGED <<servers, nextServer>>

\* CLOUD.compute.delete_server(x): x a server object (found by id) or a string
\* (found by id or name; nothing found is ignored).  ok = no exception.
DeleteTargets(x) ==
    IF x \in Names THEN {s \in servers : s.name = x} ELSE {s \in servers : s.id = x.id}
DeleteServer(x, ok, hit) ==
    /\ hit \subseteq DeleteTargets(x)
    /\ Cardinality(hit) <= 1
    /\ servers' = IF ok THEN servers \ hit ELSE servers

----------------------------------------------------------------------------
\* scale_up: one provisioning attempt, run by the webhook handler or by a
\* worker thread of a pool's executor.
\*   pc   "queued" submitted, not started; "token" before the jitconfig request;
\*        "create" before create_server; "done" returned; "failed" raised
\*   tok  outcome of the jitconfig request; req: create_server was called;
\*   made the ids of the servers the attempt created

NewTask ==
    [pc |-> "queued", name |-> NoName, tok |-> "none", req |-> FALSE, made |-> {}]

\* scale_up going on to create_server whatever the jitconfig request returned
ScaleUpTokenUnchecked(t, name, ok) ==
    [t EXCEPT !.name = name,
              !.tok = IF ok THEN "ok" ELSE "failed",
              !.pc = "create"]

\* lines 127-133: raise_for_status() raises out of scale_up on a failed request
ScaleUpToken(t, name, ok) ==
    [t EXCEPT !.name = name,
              !.tok = IF ok THEN "ok" ELSE "failed",
              !.pc = IF ok THEN "create" ELSE "failed"]

\* lines 136-149
ScaleUpCreate(t, outcome) ==
    [t EXCEPT !.req = TRUE,
              !.made = IF outcome = "fail" THEN {} ELSE {nextServer},
              !.pc = IF outcome = "ok" THEN "done" ELSE "failed"]

\* Anything but the clean-up changing the servers or the runners.
\*   hist.cur   since the latest clean-up pass began nothing else has changed
\*              them, and no request of the pass has failed
\*   hist.prev  the same of the pass before it, up to now
\*   hist.curDel, hist.prevDel  the pass issued a delete request
NoHist == [prev |-> FALSE, cur |-> FALSE, prevDel |-> FALSE, curDel |-> FALSE]
Touch == hist' = NoHist

----------------------------------------------------------------------------
\* on_workflow_job

HookIdle ==
    [pc |-> "idle", event |-> NoEvent, pool |-> 0, task |-> NewTask, res |-> "none",
     scale_ups |-> <<>>, deletes |-> <<>>]

\* for pool in CFG["pools"]: if pool["runner"]["label"] in labels
MatchingPools(labels) == {i \in 1..Len(pools) : pools[i].label \in labels}
Min(S) == CHOOSE i \in S : \A j \in S : i <= j
Max(S) == CHOOSE i \in S : \A j \in S : i >= j
\* the loop without its return: the last matching pool is what it ends on
LastMatch(labels) == Max(MatchingPools(labels))
\* lines 46-49: the loop returns at the first pool that matches
FirstMatch(labels) == Min(MatchingPools(labels))

\* a handler without the organization filter
AcceptedAnyOrg(e) == e.org \in Orgs

\* the organization filter of lines 39-41
Accepted(e) == e.org = CfgOrg

\* a handler that deletes only for the jobs of a configured pool
DispatchPoolsOnly(e) ==
    IF e.org # CfgOrg THEN "return"
    ELSE IF MatchingPools(e.labels) = {} THEN "return"
    ELSE IF e.action = "queued" THEN "scale_up"
    ELSE IF e.action = "completed" THEN "delete_server"
    ELSE "return"

\* what on_workflow_job does with a delivery: lines 39-54
Dispatch(e) ==
    IF ~Accepted(e) THEN "return"
    ELSE IF e.action = "queued" /\ MatchingPools(e.labels) # {} THEN "scale_up"
    ELSE IF e.action = "completed" THEN "delete_server"
    ELSE "return"

\* A delivery whose handler returns without a call
HookNoop(e) ==
    /\ hook.pc = "idle"
    /\ Dispatch(e) = "return"
    /\ hook' = [HookIdle EXCEPT !.event = e, !.res = "ok"]
    /\ UNCHANGED <<pools, servers, runners, nextServer, nextRunner, tick,
                   tasks, running, hist, drift>>

\* "queued": scale_up(pool) for the first matching pool, then return
HookQueued(e) ==
    /\ hook.pc = "idle"
    /\ Dispatch(e) = "scale_up"
    /\ hook' = [HookIdle EXCEPT !.event = e, !.pc = "scale_up",
                                !.pool = FirstMatch(e.labels),
                                !.task = [NewTask EXCEPT !.pc = "token"],
                                !.scale_ups = <<FirstMatch(e.labels)>>]
    /\ UNCHANGED <<pools, servers, runners, nextServer, nextRunner, tick,
                   tasks, running, hist, drift>>

\* the outcome of the handler once its scale_up has returned or raised
HookAfter(t) ==
    [hook EXCEPT !.task = t,
                 !.pc = IF t.pc \in {"done", "failed"} THEN "idle" ELSE "scale_up",
                 !.res = IF t.pc = "done" THEN "ok"
                         ELSE IF t.pc = "failed" THEN "error" ELSE "none"]

HookToken(name, ok) ==
    /\ hook.pc = "scale_up"
    /\ hook.task.pc = "token"
    /\ GenerateJitconfig(name, pools[hook.pool].label, ok)
    /\ hook' = HookAfter(ScaleUpToken(hook.task, name, ok))
    /\ IF ok THEN Touch ELSE UNCHANGED hist
    /\ UNCHANGED <<pools, servers, nextServer, tick, tasks, running, drift>>

HookCreate(outcome) ==
    /\ hook.pc = "scale_up"
    /\ hook.task.pc = "create"
    /\ CreateServer(hook.task.name, outcome)
    /\ hook' = HookAfter(ScaleUpCreate(hook.task, outcome))
    /\ IF outcome # "fail" THEN Touch ELSE UNCHANGED hist
    /\ UNCHANGED <<pools, runners, nextRunner, tick, tasks, running, drift>>

\* "completed": CLOUD.compute.delete_server(runner_name); an exception of the
\* call leaves the handler
HookCompleted(e, ok, hit) ==
    /\ hook.pc = "idle"
    /\ Dispatch(e) = "delete_server"
    /\ DeleteServer(e.runner_name, ok, hit)
    /\ hook' = [HookIdle EXCEPT !.event = e,
                                !.deletes = <<e.runner_name>>,
                                !.res = IF ok THEN "ok" ELSE "error"]
    /\ IF servers' # servers THEN Touch ELSE UNCHANGED hist
    /\ UNCHANGED <<pools, runners, nextServer, nextRunner, tick, tasks,
                   running, drift>>

----------------------------------------------------------------------------
\* The environment

\* somebody else registers a runner
RunnerAppears(n, l) ==
    /\ drift < MaxDrift
    /\ n \notin RunnerNames(runners)
    /\ nextRunner <= RunnerQuota
    /\ runners' = runners \cup
            {[id |-> nextRunner, name |-> n, busy |-> FALSE, labels |-> {l}]}
    /\ nextRunner' = nextRunner + 1
    /\ drift' = drift + 1
    /\ Touch
    /\ UNCHANGED <<pools, servers, nextServer, hook, tick, tasks, running>>

\* GitHub assigns a job to an idle runner
RunnerBusy(r) ==
    /\ drift < MaxDrift
    /\ r \in runners
    /\ ~r.busy
    /\ runners' = (runners \ {r}) \cup {[r EXCEPT !.busy = TRUE]}
    /\ drift' = drift + 1
    /\ Touch
    /\ UNCHANGED <<pools, servers, nextServer, nextRunner, hook, tick, tasks,
                   running>>

\* a runner registration disappears (the ephemeral runner finished, or an admin)
RunnerGone(r) ==
    /\ drift < MaxDrift
    /\ r \in runners
    /\ runners' = runners \ {r}
    /\ drift' = drift + 1
    /\ Touch
    /\ UNCHANGED <<pools, servers, nextServer, nextRunner, hook, tick, tasks,
                   running>>

\* somebody else creates a server
ServerAppears(n) ==
    /\ drift < MaxDrift
    /\ nextServer <= ServerQuota
    /\ servers' = servers \cup {[id |-> nextServer, name |-> n]}
    /\ nextServer' = nextServer + 1
    /\ drift' = drift + 1
    /\ Touch
    /\ UNCHANGED <<pools, runners, nextRunner, hook, tick, tasks, running>>

\* a server is destroyed out of band
ServerGone(s) ==
    /\ drift < MaxDrift
    /\ s \in servers
    /\ servers' = servers \ {s}
    /\ drift' = drift + 1
    /\ Touch
    /\ UNCHANGED <<pools, runners, nextServer, nextRunner, hook, tick, tasks,
                   running>>

----------------------------------------------------------------------------
\* maintain_min_ready, scheduled every 30 seconds
\*   pc   "idle"; "query" before get_runners_by_label of pool `pool`; "batch"
\*        inside the executor block of pool `pool`; "gc_servers" before line 68;
\*        "gc_runners" before line 69; "del_servers", "del_runners" in the loops
\*   res  how the last run ended: "ok" returned, "error" raised (at: where)
\*   skipped  a timer fire was dropped during this run
\*   log  per pool queried in this run: the idle count and the tasks submitted
\*   gc_runs, listed, gcServers, gcRunners, reqS, reqR: the clean-up of this
\*        run, its two lists (listed: both are read) and the delete requests it
\*        has issued

TickIdle ==
    [pc |-> "idle", pool |-> 0, res |-> "none", at |-> "", skipped |-> FALSE,
     log |-> <<>>,
     gc_runs |-> 0, listed |-> FALSE, gcServers |-> {}, gcRunners |-> {},
     reqS |-> {}, reqR |-> {}]

\* a scheduler that lets one more instance run
CanRunOneMore == running < max_instances + 1

\* APScheduler runs the job unless max_instances of it are running already;
\* a fire that finds them running is dropped.
CanRun == running < max_instances

TimerFire ==
    /\ IF CanRun
       THEN /\ running' = running + 1
            /\ tick' = [TickIdle EXCEPT !.pc = "query", !.pool = 1]
            /\ tasks' = <<>>
       ELSE /\ tick' = [tick EXCEPT !.skipped = TRUE]
            /\ UNCHANGED <<running, tasks>>
    /\ UNCHANGED <<pools, servers, runners, nextServer, nextRunner, hook, hist,
                   drift>>

\* an exception leaves maintain_min_ready
TickRaise == [tick EXCEPT !.pc = "idle", !.res = "error", !.at = tick.pc]

\* get_runners_by_label
GetRunnersByLabel(rs, label) == {r \in rs : label \in r.labels}
\* lines 92-98
IdleRunners(rs) == {r \in rs : r.busy = FALSE}
\* the deficit counted against all the runners of the label, busy or not
NodesToCreateAnyRunner(pool, rs) ==
    pool.min_ready - Cardinality(GetRunnersByLabel(rs, pool.label))

\* line 108
NodesToCreate(pool, rs) ==
    pool.min_ready - Cardinality(IdleRunners(GetRunnersByLabel(rs, pool.label)))

\* the loop of lines 65-66 moves on, or line 68 is reached
AfterPool ==
    IF tick.pool < Len(pools)
    THEN [tick EXCEPT !.pc = "query", !.pool = @ + 1]
    ELSE [tick EXCEPT !.pc = "gc_servers"]

\* maintain_min_ready_for_pool up to the submission of the tasks
PoolQuery(ok) ==
    /\ tick.pc = "query"
    /\ IF ~ok
       THEN /\ tick' = TickRaise
            /\ running' = running - 1
            /\ tasks' = <<>>
       ELSE LET pool == pools[tick.pool]
                n == NodesToCreate(pool, runners)
                idle == Cardinality(IdleRunners(GetRunnersByLabel(runners, pool.label)))
                entry == [pool |-> tick.pool, idle |-> idle,
                          submitted |-> IF n > 0 THEN n ELSE 0]
            IN  /\ tasks' = IF n > 0 THEN [i \in 1..n |-> NewTask] ELSE <<>>
                /\ tick' = IF n > 0
                           THEN [tick EXCEPT !.pc = "batch", !.log = Append(@, entry)]
                           ELSE [AfterPool EXCEPT !.log = Append(@, entry)]
                /\ UNCHANGED running
    /\ UNCHANGED <<pools, servers, runners, nextServer, nextRunner, hook, hist,
                   drift>>

InFlight == {i \in 1..Len(tasks) : tasks[i].pc \in {"token", "create"}}
Resolved == {i \in 1..Len(tasks) : tasks[i].pc \in {"done", "failed"}}

\* a worker thread takes the oldest queued task; the executor has at most
\* max_workers threads
WorkerFree == Cardinality(InFlight) < max_workers

TaskStart(i) ==
    /\ tick.pc = "batch"
    /\ i \in 1..Len(tasks)
    /\ tasks[i].pc = "queued"
    /\ \A j \in 1..(i - 1) : tasks[j].pc # "queued"
    /\ WorkerFree
    /\ tasks' = [tasks EXCEPT ![i].pc = "token"]
    /\ UNCHANGED <<pools, servers, runners, nextServer, nextRunner, hook, tick,
                   running, hist, drift>>

TaskToken(i, name, ok) ==
    /\ tick.pc = "batch"
    /\ i \in 1..Len(tasks)
    /\ tasks[i].pc = "token"
    /\ GenerateJitconfig(name, pools[tick.pool].label, ok)
    /\ tasks' = [tasks EXCEPT ![i] = ScaleUpToken(@, name, ok)]
    /\ IF ok THEN Touch ELSE UNCHANGED hist
    /\ UNCHANGED <<pools, servers, nextServer, hook, tick, running, drift>>

TaskCreate(i, outcome) ==
    /\ tick.pc = "batch"
    /\ i \in 1..Len(tasks)
    /\ tasks[i].pc = "create"
    /\ CreateServer(tasks[i].name, outcome)
    /\ tasks' = [tasks EXCEPT ![i] = ScaleUpCreate(@, outcome)]
    /\ IF outcome # "fail" THEN Touch ELSE UNCHANGED hist
    /\ UNCHANGED <<pools, runners, nextRunner, hook, tick, running, drift>>

\* lines 118-121: future.result() re-raises the exception of a failed task;
\* leaving the with block waits for every submitted task
BatchRaises == \E i \in 1..Len(tasks) : tasks[i].pc = "failed"

\* a function that raises at the first failed task without waiting for the rest
JoinOnFirstFailure == Resolved = 1..Len(tasks) \/ BatchRaises

\* the with block of lines 112-121 is left (shutdown(wait=True) on exit) only
\* when every submitted task has run to its end
JoinReady == Resolved = 1..Len(tasks)

PoolJoin ==
    /\ tick.pc = "batch"
    /\ JoinReady
    /\ IF BatchRaises
       THEN /\ tick' = TickRaise
            /\ running' = running - 1
       ELSE /\ tick' = AfterPool
            /\ UNCHANGED running
    /\ UNCHANGED <<pools, servers, runners, nextServer, nextRunner, hook,
                   tasks, hist, drift>>

\* line 68
GCListServers(ok) ==
    /\ tick.pc = "gc_servers"
    /\ IF ok
       THEN /\ tick' = [tick EXCEPT !.pc = "gc_runners", !.gc_runs = @ + 1,
                                    !.gcServers = {s \in servers : HasPrefix(s.name)}]
            /\ hist' = [prev |-> hist.cur, cur |-> TRUE,
                        prevDel |-> hist.curDel, curDel |-> FALSE]
            /\ UNCHANGED running
       ELSE /\ tick' = TickRaise
            /\ running' = running - 1
            /\ UNCHANGED hist
    /\ UNCHANGED <<pools, servers, runners, nextServer, nextRunner, hook,
                   tasks, drift>>

\* the first loop without its test: every listed server is deleted
ListedServers(ss, rs) == ss

\* the first loop with its test inverted
MatchedServers(ss, rs) == {s \in ss : s.name \in RunnerNames(rs)}

\* lines 72-75: the servers of the list that the first loop deletes
UnmatchedServers(ss, rs) == {s \in ss : s.name \notin RunnerNames(rs)}
\* lines 81-84: the runners of the list that the second loop deletes
UnmatchedRunners(ss, rs) == {r \in rs : r.name \notin ServerNames(ss)}

\* where the clean-up stands once the requests reqS and reqR are issued
AfterDelete(t) ==
    IF UnmatchedServers(t.gcServers, t.gcRunners) \ t.reqS # {}
    THEN [t EXCEPT !.pc = "del_servers"]
    ELSE IF UnmatchedRunners(t.gcServers, t.gcRunners) \ t.reqR # {}
    THEN [t EXCEPT !.pc = "del_runners"]
    ELSE [t EXCEPT !.pc = "idle", !.res = "ok"]

Returns(t) == IF t.pc = "idle" THEN running - 1 ELSE running

\* line 69 and the list of names of line 72
GCListRunners(ok) ==
    /\ tick.pc = "gc_runners"
    /\ IF ok
       THEN /\ tick' = AfterDelete([tick EXCEPT !.gcRunners = runners, !.listed = TRUE])
            /\ UNCHANGED hist
       ELSE /\ tick' = TickRaise
            /\ hist' = [hist EXCEPT !.cur = FALSE]
    /\ running' = Returns(tick')
    /\ UNCHANGED <<pools, servers, runners, nextServer, nextRunner, hook,
                   tasks, drift>>

\* lines 73-78: CLOUD.compute.delete_server(server) for the next unmatched server
GCDeleteServer(s, ok) ==
    /\ tick.pc = "del_servers"
    /\ s \in UnmatchedServers(tick.gcServers, tick.gcRunners) \ tick.reqS
    /\ DeleteServer(s, ok, {s} \cap servers)
    /\ tick' = IF ok THEN AfterDelete([tick EXCEPT !.reqS = @ \cup {s}])
               ELSE [TickRaise EXCEPT !.reqS = @ \cup {s}]
    /\ hist' = [hist EXCEPT !.curDel = TRUE, !.cur = @ /\ ok]
    /\ running' = Returns(tick')
    /\ UNCHANGED <<pools, runners, nextServer, nextRunner, hook, tasks, drift>>

\* remove_self_hosted_runner: DELETE .../actions/runners/<id>;
\* "ok" status 204; "refused" another status, which the caller does not look at;
\* "raise" the request raised
RemoveOutcomes == {"ok", "refused", "raise"}
RemoveSelfHostedRunner(r, outcome) ==
    /\ outcome = "ok" => r \in runners
    /\ runners' = IF outcome = "ok" THEN runners \ {r} ELSE runners

\* lines 82-87
GCDeleteRunner(r, outcome) ==
    /\ tick.pc = "del_runners"
    /\ r \in UnmatchedRunners(tick.gcServers, tick.gcRunners) \ tick.reqR
    /\ RemoveSelfHostedRunner(r, outcome)
    /\ tick' = IF outcome # "raise" THEN AfterDelete([tick EXCEPT !.reqR = @ \cup {r}])
               ELSE [TickRaise EXCEPT !.reqR = @ \cup {r}]
    /\ hist' = [hist EXCEPT !.curDel = TRUE, !.cur = @ /\ outcome = "ok"]
    /\ running' = Returns(tick')
    /\ UNCHANGED <<pools, servers, nextServer, nextRunner, hook, tasks, drift>>

----------------------------------------------------------------------------

\* What the cloud and the registry may hold when the program starts: nothing;
\* a server with its runner; these and a server and a runner that are not this
\* program's; a server with its runner, a server without, a runner without.
Srv(i, n) == [id |-> i, name |-> n]
Run(i, n, ls) == [id |-> i, name |-> n, busy |-> FALSE, labels |-> ls]
InitWorlds ==
    { [servers |-> {}, runners |-> {}],
      [servers |-> {Srv(1, Name("gha-", "a"))},
       runners |-> {Run(1, Name("gha-", "a"), {"x"})}],
      [servers |-> {Srv(1, Name("gha-", "a")), Srv(3, Name("web-", "a"))},
       runners |-> {Run(1, Name("gha-", "a"), {"x"}), Run(3, Name("web-", "a"), {"x", "y"})}],
      [servers |-> {Srv(1, Name("gha-", "a")), Srv(2, Name("gha-", "b"))},
       runners |-> {Run(1, Name("gha-", "a"), {"x"}), Run(3, Name("web-", "a"), {"x", "y"})}] }

Init ==
    /\ pools \in PoolConfigs
    /\ \E w \in InitWorlds : servers = w.servers /\ runners = w.runners
    /\ nextServer = 4
    /\ nextRunner = 4
    /\ hook = HookIdle
    /\ tick = TickIdle
    /\ tasks = <<>>
    /\ running = 0
    /\ hist = NoHist
    /\ drift = 0

HookNext ==
    \/ \E e \in Events : HookNoop(e)
    \/ \E e \in Events : HookQueued(e)
    \/ \E n \in GeneratedNames, ok \in BOOLEAN : HookToken(n, ok)
    \/ \E o \in CreateOutcomes : HookCreate(o)
    \/ \E e \in Events, ok \in BOOLEAN, hit \in SUBSET servers : HookCompleted(e, ok, hit)

EnvNext ==
    \/ \E n \in Names, l \in Labels : RunnerAppears(n, l)
    \/ \E r \in runners : RunnerBusy(r)
    \/ \E r \in runners : RunnerGone(r)
    \/ \E n \in Names : ServerAppears(n)
    \/ \E s \in servers : ServerGone(s)

TickNext ==
    \/ TimerFire
    \/ \E ok \in BOOLEAN : PoolQuery(ok)
    \/ \E i \in 1..Len(tasks) : TaskStart(i)
    \/ \E i \in 1..Len(tasks), n \in GeneratedNames, ok \in BOOLEAN : TaskToken(i, n, ok)
    \/ \E i \in 1..Len(tasks), o \in CreateOutcomes : TaskCreate(i, o)
    \/ PoolJoin
    \/ \E ok \in BOOLEAN : GCListServers(ok)
    \/ \E ok \in BOOLEAN : GCListRunners(ok)
    \/ \E s \in tick.gcServers, ok \in BOOLEAN : GCDeleteServer(s, ok)
    \/ \E r \in tick.gcRunners, o \in RemoveOutcomes : GCDeleteRunner(r, o)

Next == HookNext \/ TickNext \/ EnvNext

\* the whole program
Spec == Init /\ [][Next]_vars

\* the scheduled job and the environment, no webhook delivery
SpecTick == Init /\ [][TickNext \/ EnvNext]_vars

\* the webhook handler and the environment, no timer fire
SpecHook == Init /\ [][HookNext \/ EnvNext]_vars

----------------------------------------------------------------------------
\* Properties of the webhook handler (checked under SpecHook)

QueuedHere == hook.event.action = "queued" /\ hook.event.org = CfgOrg
CompletedHere == hook.event.action = "completed" /\ hook.event.org = CfgOrg
NoProvisioning == hook.scale_ups = <<>> /\ hook.task = NewTask

\* C3: a queued event from the configured organization makes exactly one
\* scale_up call, for the first configured pool whose label is among the job's
\* labels, and none for a later pool; with no such pool it makes no scale_up
\* call and no delete call.
C3_QueuedFirstMatch ==
    QueuedHere =>
        LET match == {i \in 1..Len(pools) : pools[i].label \in hook.event.labels}
        IN  /\ hook.deletes = <<>>
            /\ IF match = {}
               THEN NoProvisioning
               ELSE \E i \in match :
                        /\ \A j \in match : i <= j
                        /\ hook.scale_ups = <<i>>
                        /\ hook.pool = i

\* a job whose labels match both pools has had its scale_up, for the first
C3_Witness ==
    /\ QueuedHere
    /\ hook.event.labels = {"x", "y"}
    /\ hook.scale_ups = <<1>>
    /\ hook.task.pc = "done"

\* C4 as stated: every completed event issues exactly one delete_server call,
\* for the event's runner_name, whatever the labels, and no provisioning call.
C4_CompletedAlwaysDeletes ==
    hook.event.action = "completed" =>
        hook.deletes = <<hook.event.runner_name>> /\ NoProvisioning

\* C4 amended: a completed event from the configured organization issues
\* exactly one delete_server call, for the event's runner_name, whatever the
\* labels and whether or not a pool matches them, and no provisioning call.
C4_CompletedHereDeletes ==
    CompletedHere =>
        hook.deletes = <<hook.event.runner_name>> /\ NoProvisioning

\* a completed job whose labels match no pool has had its delete call
C4_Witness ==
    /\ CompletedHere
    /\ MatchingPools(hook.event.labels) = {}
    /\ hook.deletes = <<Name("web-", "a")>>
    /\ hook.res = "ok"

\* C10: the handler of a completed event never ends in an error, also when
\* the delete request fails.
C10_CompletedNeverFails ==
    CompletedHere => hook.res # "error"

----------------------------------------------------------------------------
\* Properties of the scheduled job (checked under SpecTick)

Logged(i) == \E k \in 1..Len(tick.log) : tick.log[k].pool = i
TickOver == tick.pc = "idle" /\ tick.res # "none"

\* C1: a clean-up pass requests the deletion of exactly the listed servers
\* whose name no listed runner has and of exactly the listed runners whose name
\* no listed server has, and of nothing whose name is on both lists.
C1_GCDeletesExactlyUnmatched ==
    LET orphanS == {s \in tick.gcServers : \A r \in tick.gcRunners : r.name # s.name}
        orphanR == {r \in tick.gcRunners : \A s \in tick.gcServers : s.name # r.name}
    IN  /\ tick.reqS \subseteq orphanS
        /\ tick.reqR \subseteq orphanR
        /\ (tick.pc = "idle" /\ tick.listed) => (tick.reqS = orphanS /\ tick.reqR = orphanR)

C5_SingleFlight ==
    /\ [](running <= 1)
    /\ [][tick.pc # "idle" => running' <= running]_vars
    /\ [][(tick.pc # "idle" /\ ~tick.skipped /\ tick'.skipped) =>
            /\ tick' = [tick EXCEPT !.skipped = TRUE]
            /\ tasks' = tasks
            /\ running' = running]_vars

\* a fire was dropped while a batch was in progress
C5_Witness ==
    /\ tick.skipped
    /\ running = 1
    /\ tick.pc = "batch"

\* C6: at most max_workers tasks of a batch are in flight; a batch of d tasks
\* makes exactly d create_server calls; the next pool is queried only when
\* the batch is resolved; the clean-up runs exactly once per run, after all
\* the pools.
C6_BatchBoundedGCOnce ==
    /\ Cardinality(InFlight) <= max_workers
    /\ tick.pc # "batch" =>
            /\ Resolved = 1..Len(tasks)
            /\ Cardinality({i \in 1..Len(tasks) : tasks[i].req}) = Len(tasks)
    /\ tick.gc_runs = 1 => \A i \in 1..Len(pools) : Logged(i)
    /\ tick.gc_runs <= 1
    /\ TickOver => tick.gc_runs = 1

\* C7: when the runner query or a task of a pool fails, the later pools are
\* still processed and the clean-up still runs in the same run.
C7_FailingPoolDoesNotAbort ==
    (TickOver /\ tick.at \in {"query", "batch"}) =>
        /\ \A i \in 1..Len(pools) : Logged(i)
        /\ tick.gc_runs = 1

\* C8: a clean-up pass that follows a pass whose requests all succeeded, with
\* no other change to the servers or the runners since that pass began,
\* requests no deletion.
C8_GCIdempotent ==
    (tick.gc_runs = 1 /\ hist.prev) => (tick.reqS = {} /\ tick.reqR = {})

\* the second of two such passes is over, and the first had deleted something
C8_Witness ==
    /\ tick.gc_runs = 1
    /\ tick.listed
    /\ TickOver
    /\ hist.prev
    /\ hist.prevDel

\* C9: an attempt whose jitconfig request failed makes no create_server call
\* and creates no server, the failing step leaves the servers as they are, and
\* an attempt calls create_server only after its jitconfig request succeeded.
Attempts == {tasks[i] : i \in 1..Len(tasks)} \cup {hook.task}
C9_TokenBeforeCreate ==
    /\ [](\A t \in Attempts :
            /\ t.tok = "failed" => (~t.req /\ t.made = {} /\ t.pc = "failed")
            /\ t.req => t.tok = "ok")
    /\ [][\A i \in 1..Len(tasks) :
            (tasks[i].pc = "token" /\ Len(tasks') = Len(tasks) /\ tasks'[i].tok = "failed")
                => servers' = servers]_vars

\* one attempt of a batch was aborted by its jitconfig request while another
\* went on to create its server
C9_Witness ==
    /\ \E i \in 1..Len(tasks) : tasks[i].tok = "failed" /\ tasks[i].pc = "failed"
    /\ \E i \in 1..Len(tasks) : tasks[i].req /\ tasks[i].made # {}

----------------------------------------------------------------------------
\* Further properties of the webhook handler (checked under SpecHook)

\* C11: the handler of a queued event acknowledges the event without waiting
\* for the create_server call of the scale_up it triggered, and acknowledges
\* whether that scale_up succeeds or fails: once the attempt is at its
\* create_server call, or has ended, the handler has returned normally.
C11_QueuedAckNotBlocked ==
    (QueuedHere /\ hook.scale_ups # <<>> /\ hook.task.pc \in {"create", "done", "failed"})
        => (hook.pc = "idle" /\ hook.res = "ok")

ForeignHere == hook.event.org \in Orgs \ {CfgOrg}

\* C12: an event of another organization, whatever its action, makes no
\* jitconfig request, no create_server call, no delete_server call and no
\* runner removal, changes neither the servers nor the runners, and its
\* handler returns without error.
C12_ForeignOrgNoop ==
    /\ [](ForeignHere =>
            /\ hook.pc = "idle"
            /\ hook.res = "ok"
            /\ hook.scale_ups = <<>>
            /\ hook.deletes = <<>>
            /\ hook.task = NewTask)
    /\ [][(hook'.event # hook.event /\ hook'.event.org \in Orgs \ {CfgOrg}) =>
            /\ servers' = servers
            /\ runners' = runners
            /\ nextServer' = nextServer
            /\ nextRunner' = nextRunner]_vars

\* a completed event of another organization, naming a server that exists,
\* has been handled
C12_Witness ==
    /\ ForeignHere
    /\ hook.event.action = "completed"
    /\ hook.event.runner_name \in ServerNames(servers)
    /\ hook.res = "ok"

\* C13: every delete_server request of the completed-event handler and of
\* the clean-up, and every create_server request of scale_up, names a server
\* with the prefix "gha-".
C13_OnlyPrefixedTargets ==
    /\ \A i \in 1..Len(hook.deletes) : HasPrefix(hook.deletes[i])
    /\ \A s \in tick.reqS : HasPrefix(s.name)
    /\ \A t \in Attempts : t.req => HasPrefix(t.name)

----------------------------------------------------------------------------
\* Further properties of the scheduled job (checked under SpecTick)

\* C16: when a task of a batch fails, the other tasks of the batch are still
\* run, each to its own success or failure, and maintain_min_ready_for_pool
\* is not left before all of them have ended; no task is started once it is left.
C16_SiblingsNotCancelled ==
    /\ [][(tick.pc = "batch" /\ tick'.pc # "batch") =>
            /\ tasks' = tasks
            /\ \A i \in 1..Len(tasks) :
                    /\ tasks[i].pc \in {"done", "failed"}
                    /\ tasks[i].tok # "none"]_vars
    /\ [][(tick.pc = "batch" /\ BatchRaises) => tick'.pc = "batch" \/ JoinReady]_vars

\* a batch ended with one task failed at its jitconfig request and a sibling
\* that created its server
C16_Witness ==
    /\ TickOver
    /\ tick.at = "batch"
    /\ Len(tasks) >= 2
    /\ \E i, j \in 1..Len(tasks) :
            /\ tasks[i].pc = "failed"
            /\ tasks[j].pc = "done"
            /\ tasks[j].made # {}

\* C17: a delete request that fails during the clean-up does not end it: the
\* pass still requests the deletion of every unmatched server and of every
\* unmatched runner of its lists, and maintain_min_ready returns normally.
C17_GCPassesIndependent ==
    (TickOver /\ tick.listed) =>
        /\ tick.at \notin {"del_servers", "del_runners"}
        /\ tick.reqS = UnmatchedServers(tick.gcServers, tick.gcRunners)
        /\ tick.reqR = UnmatchedRunners(tick.gcServers, tick.gcRunners)

----------------------------------------------------------------------------
\* Names (checked under SpecHook)

\* C20: scale_up never makes two servers or two runners share a name: the
\* server it creates has a name no existing server has, the runner it
\* registers has a name no registered runner has, and the server is created
\* under the name of the jitconfig request.
C20_NamesUnambiguous ==
    [][/\ (hook'.task.req /\ ~hook.task.req) =>
            /\ hook'.task.name = hook.task.name
            /\ \A s \in servers' \ servers :
                    /\ s.name = hook.task.name
                    /\ s.name \notin ServerNames(servers)
       /\ (hook.task.pc = "token" /\ hook'.task.tok = "ok") =>
            \A r \in runners' \ runners :
                    /\ r.name = hook'.task.name
                    /\ r.name \notin RunnerNames(runners)]_vars

----------------------------------------------------------------------------
\* The scheduled job when every external call succeeds and nothing else
\* touches the cloud or the registry; the timer keeps firing.

\* pool lists for which the quotas and the generated names above leave room
LivePools ==
    { << [label |-> "x", min_ready |-> 1], [label |-> "y", min_ready |-> 1] >>,
      << [label |-> "x", min_ready |-> 2], [label |-> "y", min_ready |-> 0] >>,
      << [label |-> "x", min_ready |-> 1], [label |-> "y", min_ready |-> 0] >> }

\* the worlds above, and the first of them with its runner busy
LiveWorlds ==
    InitWorlds \cup
    { [servers |-> {Srv(1, Name("gha-", "a"))},
       runners |-> {[Run(1, Name("gha-", "a"), {"x"}) EXCEPT !.busy = TRUE]}] }

InitLive ==
    /\ pools \in LivePools
    /\ \E w \in LiveWorlds : servers = w.servers /\ runners = w.runners
    \* with a busy runner holding one of the two names, one name is left
    /\ (\E r \in runners : r.busy) => (pools[1].min_ready + pools[2].min_ready <= 1)
    /\ nextServer = 4
    /\ nextRunner = 4
    /\ hook = HookIdle
    /\ tick = TickIdle
    /\ tasks = <<>>
    /\ running = 0
    /\ hist = NoHist
    /\ drift = 0

LiveNext ==
    \/ TimerFire
    \/ PoolQuery(TRUE)
    \/ \E i \in 1..Len(tasks) : TaskStart(i)
    \/ \E i \in 1..Len(tasks), n \in GeneratedNames : TaskToken(i, n, TRUE)
    \/ \E i \in 1..Len(tasks) : TaskCreate(i, "ok")
    \/ PoolJoin
    \/ GCListServers(TRUE)
    \/ GCListRunners(TRUE)
    \/ \E s \in tick.gcServers : GCDeleteServer(s, TRUE)
    \/ \E r \in tick.gcRunners : GCDeleteRunner(r, "ok")

SpecLive == InitLive /\ [][LiveNext]_vars /\ WF_vars(LiveNext)

\* idle_count >= min_ready for every pool
PoolReady(i) ==
    Cardinality(IdleRunners(GetRunnersByLabel(runners, pools[i].label))) >= pools[i].min_ready
AllPoolsReady == \A i \in 1..Len(pools) : PoolReady(i)

\* the servers scale_up has created (the cloud's ids 1..3 were taken before)
CreatedServers == {s \in servers : s.id > 3}

----------------------------------------------------------------------------
\* The scheduled job with the timer firing for ever, the listings answered,
\* provisioning and delete requests failing or not, and a delete request that
\* is issued again and again succeeding in the end.

HealNext ==
    \/ TimerFire
    \/ PoolQuery(TRUE)
    \/ \E i \in 1..Len(tasks) : TaskStart(i)
    \/ \E i \in 1..Len(tasks), n \in GeneratedNames, ok \in BOOLEAN : TaskToken(i, n, ok)
    \/ \E i \in 1..Len(tasks), o \in CreateOutcomes : TaskCreate(i, o)
    \/ PoolJoin
    \/ GCListServers(TRUE)
    \/ GCListRunners(TRUE)
    \/ \E s \in tick.gcServers, ok \in BOOLEAN : GCDeleteServer(s, ok)
    \/ \E r \in tick.gcRunners, o \in RemoveOutcomes : GCDeleteRunner(r, o)

SpecHeal ==
    /\ Init
    /\ [][HealNext \/ EnvNext]_vars
    /\ WF_vars(HealNext)
    /\ SF_vars(\E s \in tick.gcServers : GCDeleteServer(s, TRUE))
    /\ SF_vars(\E r \in tick.gcRunners : GCDeleteRunner(r, "ok"))

\* reserved-prefix servers no runner is named after, and runners no
\* reserved-prefix server is named after
OrphanServers == {s \in servers : HasPrefix(s.name) /\ s.name \notin RunnerNames(runners)}
OrphanRunners ==
    {r \in runners : r.name \notin ServerNames({s \in servers : HasPrefix(s.name)})}

\* C15: with the timer firing for ever and delete requests succeeding in the
\* end, a server left without its runner and a runner left without its server
\* are eventually deleted.
C15_OrphansSelfHeal ==
    /\ \A n \in GeneratedNames :
            (\E s \in OrphanServers : s.name = n) ~> ~(\E s \in OrphanServers : s.name = n)
    /\ \A n \in Names :
            (\E r \in OrphanRunners : r.name = n) ~> ~(\E r \in OrphanRunners : r.name = n)

----------------------------------------------------------------------------
\* The scheduled job and queued-event deliveries together: a scale_up of the
\* webhook handler runs in its own thread, between any two steps of the job.

\* queued events of the configured organization that match a pool
RaceEvents == {e \in Events : Dispatch(e) = "scale_up"}

RaceHookNext ==
    \/ \E e \in RaceEvents : HookQueued(e)
    \/ \E n \in GeneratedNames, ok \in BOOLEAN : HookToken(n, ok)
    \/ \E o \in CreateOutcomes : HookCreate(o)

\* every server has its runner and every runner its server when the program
\* starts
InitRace ==
    /\ Init
    /\ \A s \in servers : s.name \in RunnerNames(runners)
    /\ \A r \in runners : r.name \in ServerNames(servers)

SpecRace == InitRace /\ [][RaceHookNext \/ TickNext]_vars
\* C19: the clean-up never requests the removal of a runner with a
\* reserved-prefix name at a moment when a server of the same name exists,
\* and never requests the deletion of a server at a moment when a runner of
\* the same name is registered, also when a scale_up of the webhook handler
\* runs during the clean-up.
C19_GCSafeAgainstScaleUp ==
    [][/\ \A r \in tick'.reqR \ tick.reqR :
            HasPrefix(r.name) => r.name \notin ServerNames(servers)
       /\ \A s \in tick'.reqS \ tick.reqS : s.name \notin RunnerNames(runners)]_vars
\* the idle runners of pool i that run on a server scale_up has created, beyond
\* the pool's min_ready
Surplus(i) ==
    Cardinality({s \in CreatedServers :
                    \E r \in IdleRunners(GetRunnersByLabel(runners, pools[i].label)) :
                        r.name = s.name})
    - pools[i].min_ready

\* C18: the servers created beyond what a pool needs to have min_ready idle
\* runners are never more than max_workers - 1, and none is left when a
\* clean-up that began after they were created has ended.
C18_OverProvisioningCorrected ==
    /\ \A i \in 1..Len(pools) : Surplus(i) <= max_workers - 1
    /\ (TickOver /\ tick.res = "ok" /\ tick.listed /\ hist.cur) =>
            \A i \in 1..Len(pools) : Surplus(i) <= 0

====
